---- MODULE Spec2Model ----
(***************************************************************************)
(* Room synchronization and mutation protocol of the tic-tac-toe SSH game. *)
(* The remote store holds one JSON document per room code.  The repository *)
(* holds two programs that use it: the layered program (internal/ui on top *)
(* of the adapter internal/db), specified by Spec, and the standalone      *)
(* server (package main), specified by StandaloneSpec.  Commands returned  *)
(* by Update (tea.Cmd closures and tea.Tick timers) run asynchronously and *)
(* are kept per client until they execute.                                 *)
(***************************************************************************)
EXTENDS Integers, Sequences, FiniteSets, TLC

\* ------------------------------------------------------------- bounds
NumClients == 2
NumCodes == 2
NumIds == 2
MaxPolls == 2
MaxCmds == 2
MaxWins == 1
MaxCreates == 2
MaxJoins == 2
MaxLeaves == 1
MaxRestarts == 2
MaxFails == 1
NumSessions == 3

\* ------------------------------------------------- program constants
BoardSize == 9

Clients == 1..NumClients
Sessions == 1..NumSessions
AllCodes == <<"AB3D", "K7QP", "ZZ99">>
Codes == {AllCodes[i] : i \in 1..NumCodes}
AllIds == <<"p1", "p2", "p3", "p4">>
Ids == {AllIds[i] : i \in 1..NumIds}
AllNames == <<"Alice", "Bob", "Carol", "Dave", "Erin">>
\* ------------------------------------------------------- JSON values
\* A stored board entry is a raw JSON value: a string, a number or
\* anything else (bool, object).
JS(s) == [t |-> "string", s |-> s, n |-> 0]
JN(n) == [t |-> "number", s |-> "", n |-> n]
JOther == [t |-> "other", s |-> "", n |-> 0]

EmptyBoard == [i \in 1..BoardSize |-> " "]
ZeroBoard == [i \in 1..BoardSize |-> ""]

\* Go's zero Room value: what unmarshalling an absent document yields.
ZeroRoom ==
  [code |-> "", board |-> ZeroBoard, turn |-> "", playerX |-> "",
   playerO |-> "", playerXName |-> "", playerOName |-> "",
   isPublic |-> FALSE, winner |-> "", winningLine |-> <<>>,
   status |-> "", winsX |-> 0, winsO |-> 0]

\* Go's zero rawRoom value: the board is a nil slice.
ZeroRaw == [ZeroRoom EXCEPT !.board = <<>>]

\* json.Marshal of a strict Room: every board cell is a JSON string.
Marshal(r) == [r EXCEPT !.board = [i \in 1..BoardSize |-> JS(r.board[i])]]

\* json.Unmarshal into a strict Room ([9]string): a non-string board entry
\* is an error; missing entries stay "", entries beyond 9 are dropped.
StrictOk(raw) == \A i \in 1..Len(raw.board) : i > BoardSize \/ raw.board[i].t = "string"
Strict(raw) ==
  [raw EXCEPT !.board =
     [i \in 1..BoardSize |-> IF i <= Len(raw.board) THEN raw.board[i].s ELSE ""]]

VARIABLES
  store,        \* code -> <<>> (no document) or <<raw document>>
  SessionID,    \* Model.SessionID
  State,        \* Model.State
  MyName,       \* Model.MyName
  MySide,       \* Model.MySide
  RoomCode,     \* Model.RoomCode
  Game,         \* Model.Game, the cached room
  Err,          \* Model.Err ("" is nil)
  PopupActive,  \* Model.PopupActive
  IsPublicCreate, \* Model.IsPublicCreate
  PublicRooms,  \* Model.PublicRooms (code and playerO of each row)
  polls,        \* pending tea.Tick poll timers, each holding its room code
  cmds,         \* pending command closures (move, restart, fetch)
  last,         \* the store operation or handler that produced this state
  used,         \* how many creates, joins, leaves, restarts, store failures so far
  limit,        \* the run's budget of user inputs and store failures
  \* the standalone program's model, one per SSH session
  state,        \* model.state
  myName,       \* model.myName
  mySide,       \* model.mySide
  roomCode,     \* model.roomCode
  game,         \* model.game, the cached RoomData
  err,          \* model.err ("" is nil)
  rematchMenu,  \* model.rematchMenu
  pending,      \* pending command closures (create, join, move, rematch)
  timers        \* pending tea.Tick poll timers, each holding its room code

\* The variables of the layered program's clients and of the standalone
\* program's sessions.
uiVars == <<SessionID, State, MyName, MySide, RoomCode, Game, Err,
            PopupActive, IsPublicCreate, PublicRooms, polls, cmds>>
standaloneVars == <<state, myName, mySide, roomCode, game, err, rematchMenu,
                    pending, timers>>

vars == <<store, last, used, limit, uiVars, standaloneVars>>

Doc(code) == IF store[code] = <<>> THEN ZeroRaw ELSE store[code][1]
Exists(code) == store[code] # <<>>

\* ------------------------------------------------------ rules engine
\* The triples with the rows scanned bottom to top.
wins_RowsReversed ==
  <<<<6,7,8>>, <<3,4,5>>, <<0,1,2>>,
    <<0,3,6>>, <<1,4,7>>, <<2,5,8>>,
    <<0,4,8>>, <<2,4,6>>>>

wins ==
  <<<<0,1,2>>, <<3,4,5>>, <<6,7,8>>,
    <<0,3,6>>, <<1,4,7>>, <<2,5,8>>,
    <<0,4,8>>, <<2,4,6>>>>

Triple(b, w) ==
  /\ b[w[1]+1] # " "
  /\ b[w[1]+1] = b[w[2]+1]
  /\ b[w[2]+1] = b[w[3]+1]

FirstWin(b) ==
  IF \E k \in 1..Len(wins) : Triple(b, wins[k])
  THEN CHOOSE k \in 1..Len(wins) :
         Triple(b, wins[k]) /\ \A j \in 1..(k-1) : ~Triple(b, wins[j])
  ELSE 0

\* checkWinner of the standalone program: the mark of the first triple.
checkWinner(b) == IF FirstWin(b) = 0 THEN "" ELSE b[wins[FirstWin(b)][1]+1]

\* game.CheckWinner: the winner and its line.
CheckWinner(b) ==
  IF FirstWin(b) = 0 THEN [winner |-> "", line |-> <<>>]
  ELSE [winner |-> b[wins[FirstWin(b)][1]+1], line |-> wins[FirstWin(b)]]

\* game.CheckDraw / checkDraw: no cell is the empty-cell value.
CheckDraw(b) == \A i \in 1..BoardSize : b[i] # " "

\* ---------------------------------------------------- store adapter
NumStr(n) == <<"0", "1", "2", "3", "4", "5", "6", "7", "8", "9">>[n+1]

sanitizeCell(v) ==
  IF v.t = "string" THEN v.s
  ELSE IF v.t = "number" THEN NumStr(v.n)
  ELSE " "

sanitizeRoom(code, raw) ==
  [raw EXCEPT
     !.code = code,
     !.board = [i \in 1..BoardSize |->
                  IF i <= Len(raw.board) THEN sanitizeCell(raw.board[i]) ELSE " "]]

\* CreateRoom that drops the visibility flag.
CreateRoomDoc_Private(code, pid, name, public) ==
  [ZeroRoom EXCEPT
     !.code = code, !.board = EmptyBoard, !.turn = "X", !.playerX = pid,
     !.playerXName = name, !.status = "waiting"]

CreateRoomDoc(code, pid, name, public) ==
  [ZeroRoom EXCEPT
     !.code = code, !.board = EmptyBoard, !.turn = "X", !.playerX = pid,
     !.playerXName = name, !.isPublic = public, !.status = "waiting"]

\* GetRoom without the test of the creator id.
GetRoom_NoCreatorCheck(code) ==
  [err |-> "", room |-> sanitizeRoom(code, Doc(code))]

\* GetRoom: err is "" on success.
GetRoom(code) ==
  IF Doc(code).playerX = ""
  THEN [err |-> "room does not exist", room |-> ZeroRoom]
  ELSE [err |-> "", room |-> sanitizeRoom(code, Doc(code))]

\* JoinRoom without the test for an absent room.
JoinFn_NoFoundCheck(raw, pid, name) ==
  IF raw.playerO # "" /\ raw.playerO # pid
  THEN [err |-> "room is full", doc |-> raw]
  ELSE [err |-> "",
        doc |-> [raw EXCEPT !.playerO = pid, !.playerOName = name,
                            !.status = "playing"]]

\* The transaction function of JoinRoom.
JoinFn(raw, pid, name) ==
  IF raw.playerX = "" THEN [err |-> "room not found", doc |-> raw]
  ELSE IF raw.playerO # "" /\ raw.playerO # pid
       THEN [err |-> "room is full", doc |-> raw]
  ELSE [err |-> "",
        doc |-> [raw EXCEPT !.playerO = pid, !.playerOName = name,
                            !.status = "playing"]]

\* LeaveRoom by the joiner that also clears the board.
LeaveUpdate_ClearBoard(raw) ==
  [raw EXCEPT !.playerO = "", !.status = "waiting",
              !.board = [i \in 1..BoardSize |-> JS(" ")]]

\* LeaveRoom by the joiner: ref.Update merges the two fields, creating the
\* node when it is absent.
LeaveUpdate(raw) == [raw EXCEPT !.playerO = "", !.status = "waiting"]

\* UpdateMove: the document written for a move at idx from the cached room r.
UpdateMoveDoc(idx, r) ==
  LET b == [r.board EXCEPT ![idx+1] = r.turn]
      cw == CheckWinner(b)
  IN IF cw.winner # ""
     THEN [r EXCEPT !.board = b, !.winner = cw.winner, !.winningLine = cw.line,
                    !.status = "finished",
                    !.winsX = IF cw.winner = "X" THEN @ + 1 ELSE @,
                    !.winsO = IF cw.winner = "X" THEN @ ELSE @ + 1]
     ELSE IF CheckDraw(b)
     THEN [r EXCEPT !.board = b, !.status = "finished"]
     ELSE [r EXCEPT !.board = b, !.turn = IF r.turn = "X" THEN "O" ELSE "X"]

\* RestartGame that also resets the scores.
RestartFn_ResetScores(raw) ==
  IF ~StrictOk(raw) THEN [err |-> "unmarshal", doc |-> raw]
  ELSE [err |-> "",
        doc |-> Marshal([Strict(raw) EXCEPT
                  !.board = EmptyBoard, !.winner = "", !.winningLine = <<>>,
                  !.status = "playing", !.turn = "X", !.winsX = 0, !.winsO = 0])]

\* The transaction function of RestartGame.
RestartFn(raw) ==
  IF ~StrictOk(raw) THEN [err |-> "unmarshal", doc |-> raw]
  ELSE [err |-> "",
        doc |-> Marshal([Strict(raw) EXCEPT
                  !.board = EmptyBoard, !.winner = "", !.winningLine = <<>>,
                  !.status = "playing", !.turn = "X"])]

\* GetPublicRooms: the public documents, sanitized, sorted by code.
CodeIdx(x) == CHOOSE i \in 1..Len(AllCodes) : AllCodes[i] = x

RECURSIVE SortedCodes(_)
SortedCodes(S) ==
  IF S = {} THEN <<>>
  ELSE LET m == CHOOSE x \in S : \A y \in S : CodeIdx(x) <= CodeIdx(y)
       IN <<m>> \o SortedCodes(S \ {m})

\* GetPublicRooms without the filter on isPublic.
GetPublicRooms_Unfiltered ==
  LET order == SortedCodes({c \in Codes : Exists(c)})
  IN [i \in 1..Len(order) |-> sanitizeRoom(order[i], Doc(order[i]))]

GetPublicRooms ==
  LET pub == {c \in Codes : Exists(c) /\ Doc(c).isPublic}
      order == SortedCodes(pub)
  IN [i \in 1..Len(order) |-> sanitizeRoom(order[i], Doc(order[i]))]

\* The fields of a fetched row that the list handler reads.
ListRows(list) ==
  [i \in 1..Len(list) |-> [code |-> list[i].code, playerO |-> list[i].playerO]]

\* -------------------------------------------------------------- Init
InitialGame == [ZeroRoom EXCEPT !.board = EmptyBoard]

\* Sessions opened with distinct keys, or all with the same key.
DistinctKeys == [c \in Clients |-> AllIds[((c-1) % NumIds) + 1]]
SameKey == [c \in Clients |-> AllIds[1]]

\* A run's budget: how many rooms are created, joins succeed, players
\* leave, restarts are requested and store calls fail, the cells the two
\* players play ("" when no move is played), whether the public list and
\* the visibility toggle are used, and whether the sessions share one key.
\* Unless a run says otherwise a session has one command and one poll timer
\* outstanding at a time and the code generator draws one code.
Budget(cr, jo, le, re, fa, script, listing, same) ==
  [creates |-> cr, joins |-> jo, leaves |-> le, restarts |-> re, fails |-> fa,
   script |-> script, listing |-> listing, sameKey |-> same,
   cmds |-> 1, polls |-> 1, codes |-> 1]

\* The runs explored: a rematch, a re-join after a failed poll, a leave
\* followed by a restart, a leave followed by a join, two creates of one
\* code, the public list, two sessions sharing one key, a game O wins and
\* a drawn game.
Rematch == Budget(1, 1, 0, MaxRestarts, 0, "xwins", FALSE, FALSE)
Rejoin == Budget(1, MaxJoins, 0, 1, MaxFails, "xwins", FALSE, FALSE)
Leave == Budget(1, 1, MaxLeaves, 1, 0, "xwins", FALSE, FALSE)
LeaveJoin == Budget(1, MaxJoins, MaxLeaves, 0, 0, "xwins", FALSE, FALSE)
Collision == Budget(MaxCreates, 1, 0, 0, 0, "xwins", FALSE, FALSE)
Listing == Budget(MaxCreates, MaxJoins, 0, 0, 0, "", TRUE, FALSE)
SharedKey == Budget(1, MaxJoins, 0, 0, 0, "xwins", FALSE, TRUE)
OWins == Budget(1, 1, 0, 1, 0, "owins", FALSE, FALSE)
Draw == Budget(1, 1, 0, 1, 0, "draw", FALSE, FALSE)

\* A game in which a player may type a second key before the command of
\* the first has run.
DoubleKey == [Budget(1, 1, 0, 0, 0, "xwins", FALSE, FALSE) EXCEPT !.cmds = MaxCmds]

\* A player leaves a room and creates another under a second code; each
\* side plays one cell.
TwoRooms == [Budget(MaxCreates, 1, MaxLeaves, 0, 0, "opening", FALSE, FALSE)
               EXCEPT !.codes = NumCodes]

\* A player leaves a room and creates another while the poll timer of the
\* first is still pending.
Abandon == [Budget(MaxCreates, 0, MaxLeaves, 0, 0, "", FALSE, FALSE)
              EXCEPT !.codes = NumCodes, !.polls = MaxPolls]

\* Both players of a room leave it, the host first or the joiner first; no
\* cell is played.
BothLeave == [Budget(1, 1, 0, 0, 0, "", FALSE, FALSE) EXCEPT !.leaves = NumClients]

Scenarios == {Rematch, Rejoin, Leave, LeaveJoin, Collision, Listing, SharedKey,
              OWins, Draw, DoubleKey, TwoRooms, Abandon, BothLeave}

\* The cells a side plays, in the order it plays them: when a player
\* presses "enter" the cursor is on the first of its cells that the cached
\* board shows empty, or on one of its earlier cells.
SideCells(script, side) ==
  IF script = "xwins" THEN (IF side = "X" THEN <<0, 1, 2>> ELSE <<3, 4>>)
  ELSE IF script = "owins" THEN (IF side = "X" THEN <<0, 1, 6>> ELSE <<3, 4, 5>>)
  ELSE IF script = "draw" THEN (IF side = "X" THEN <<0, 2, 3, 7, 8>> ELSE <<1, 4, 5, 6>>)
  ELSE IF script = "opening" THEN (IF side = "X" THEN <<0>> ELSE <<3>>)
  ELSE <<>>

CursorCells(script, side, board) ==
  LET cs == SideCells(script, side)
      free == {i \in 1..Len(cs) : board[cs[i]+1] = " "}
      first == IF free = {} THEN Len(cs)
               ELSE CHOOSE i \in free : \A j \in free : i <= j
  IN {cs[i] : i \in 1..first}


NoOp == [op |-> "init", c |-> 0, code |-> "", err |-> ""]

\* initialModel of the standalone program: every session at the name prompt.
initialModel ==
  /\ state = [s \in Sessions |-> "NameInput"]
  /\ myName = [s \in Sessions |-> ""]
  /\ mySide = [s \in Sessions |-> ""]
  /\ roomCode = [s \in Sessions |-> ""]
  /\ game = [s \in Sessions |-> InitialGame]
  /\ err = [s \in Sessions |-> ""]
  /\ rematchMenu = [s \in Sessions |-> 0]
  /\ pending = [s \in Sessions |-> <<>>]
  /\ timers = [s \in Sessions |-> <<>>]

\* InitialModel of internal/ui for every client.
InitialModel ==
  /\ SessionID = IF limit.sameKey THEN SameKey ELSE DistinctKeys
  /\ State = [c \in Clients |-> "NameInput"]
  /\ MyName = [c \in Clients |-> ""]
  /\ MySide = [c \in Clients |-> ""]
  /\ RoomCode = [c \in Clients |-> ""]
  /\ Game = [c \in Clients |-> InitialGame]
  /\ Err = [c \in Clients |-> ""]
  /\ PopupActive = [c \in Clients |-> FALSE]
  /\ IsPublicCreate = [c \in Clients |-> FALSE]
  /\ PublicRooms = [c \in Clients |-> <<>>]
  /\ polls = [c \in Clients |-> <<>>]
  /\ cmds = [c \in Clients |-> <<>>]
  /\ used = [creates |-> 0, joins |-> 0, leaves |-> 0, restarts |-> 0, fails |-> 0]

\* The layered program: an empty store, every client at the name prompt.
Init ==
  /\ store = [k \in Codes |-> <<>>]
  /\ last = NoOp
  /\ limit \in Scenarios
  /\ InitialModel
  /\ initialModel

\* ----------------------------------------------------------- helpers
RemoveAt(s, i) == [j \in 1..(Len(s)-1) |-> IF j < i THEN s[j] ELSE s[j+1]]

Op(op, c, code, e) == [op |-> op, c |-> c, code |-> code, err |-> e]
\* A handler that touches neither the store nor a command's result.
UiOp == Op("ui", 0, "", "")

MoveCmd(code, idx, r) == [kind |-> "move", code |-> code, idx |-> idx, game |-> r]
RestartCmd(code) == [kind |-> "restart", code |-> code, idx |-> 0, game |-> ZeroRoom]
FetchCmd == [kind |-> "fetch", code |-> "", idx |-> 0, game |-> ZeroRoom]

InRoom(c) == State[c] \in {"Lobby", "Game"}

\* The codes generated or typed in this run.
RunCodes == {AllCodes[i] : i \in 1..limit.codes}

\* ------------------------------------------------ session: name, menu
updateName(c) ==
  /\ State[c] = "NameInput" /\ ~PopupActive[c]
  /\ MyName' = [MyName EXCEPT ![c] = AllNames[c]]
  /\ State' = [State EXCEPT ![c] = "Menu"]
  /\ UNCHANGED <<limit, standaloneVars>> /\ last' = UiOp /\ UNCHANGED used
  /\ UNCHANGED <<store, SessionID, MySide, RoomCode, Game, Err, PopupActive,
                 IsPublicCreate, PublicRooms, polls, cmds>>

MenuCreate(c) ==
  /\ State[c] = "Menu" /\ ~PopupActive[c]
  /\ State' = [State EXCEPT ![c] = "CreateConfig"]
  /\ IsPublicCreate' = [IsPublicCreate EXCEPT ![c] = FALSE]
  /\ UNCHANGED <<limit, standaloneVars>> /\ last' = UiOp /\ UNCHANGED used
  /\ UNCHANGED <<store, SessionID, MyName, MySide, RoomCode, Game, Err,
                 PopupActive, PublicRooms, polls, cmds>>

MenuJoin(c) ==
  /\ State[c] = "Menu" /\ ~PopupActive[c]
  /\ State' = [State EXCEPT ![c] = "InputCode"]
  /\ UNCHANGED <<limit, standaloneVars>> /\ last' = UiOp /\ UNCHANGED used
  /\ UNCHANGED <<store, SessionID, MyName, MySide, RoomCode, Game, Err,
                 PopupActive, IsPublicCreate, PublicRooms, polls, cmds>>

MenuList(c) ==
  /\ State[c] = "Menu" /\ ~PopupActive[c]
  /\ limit.listing
  /\ Len(cmds[c]) < limit.cmds
  /\ State' = [State EXCEPT ![c] = "PublicList"]
  /\ cmds' = [cmds EXCEPT ![c] = Append(@, FetchCmd)]
  /\ UNCHANGED <<limit, standaloneVars>> /\ last' = UiOp /\ UNCHANGED used
  /\ UNCHANGED <<store, SessionID, MyName, MySide, RoomCode, Game, Err,
                 PopupActive, IsPublicCreate, PublicRooms, polls>>

\* --------------------------------------------------- session: create
CreateToggle(c) ==
  /\ State[c] = "CreateConfig" /\ ~PopupActive[c]
  /\ limit.listing
  /\ IsPublicCreate' = [IsPublicCreate EXCEPT ![c] = ~@]
  /\ UNCHANGED <<limit, standaloneVars>> /\ last' = UiOp /\ UNCHANGED used
  /\ UNCHANGED <<store, SessionID, State, MyName, MySide, RoomCode, Game, Err,
                 PopupActive, PublicRooms, polls, cmds>>

\* "enter": generateCode draws any code; CreateRoom is ref.Set, which may
\* fail with a store error.
CreateEnter(c) ==
  /\ State[c] = "CreateConfig" /\ ~PopupActive[c]
  /\ \E code \in RunCodes, ok \in BOOLEAN :
       /\ RoomCode' = [RoomCode EXCEPT ![c] = code]
       /\ MySide' = [MySide EXCEPT ![c] = "X"]
       /\ IF ok
          THEN /\ Len(polls[c]) < limit.polls
               /\ store' = [store EXCEPT ![code] =
                    <<Marshal(CreateRoomDoc(code, SessionID[c], MyName[c],
                                            IsPublicCreate[c]))>>]
               /\ State' = [State EXCEPT ![c] = "Lobby"]
               /\ polls' = [polls EXCEPT ![c] = Append(@, code)]
               /\ used.creates < limit.creates
               /\ UNCHANGED <<limit, standaloneVars>> /\ last' = Op("create", c, code, "")
               /\ used' = [used EXCEPT !.creates = @ + 1]
               /\ UNCHANGED Err
          ELSE /\ Err' = [Err EXCEPT ![c] = "store unavailable"]
               /\ used.fails < limit.fails
               /\ UNCHANGED <<limit, standaloneVars>> /\ last' = Op("create", c, code, "store unavailable")
               /\ used' = [used EXCEPT !.fails = @ + 1]
               /\ UNCHANGED <<store, State, polls>>
  /\ UNCHANGED <<SessionID, MyName, Game, PopupActive, IsPublicCreate,
                 PublicRooms, cmds>>

CreateEsc(c) ==
  /\ State[c] = "CreateConfig" /\ ~PopupActive[c]
  /\ State' = [State EXCEPT ![c] = "Menu"]
  /\ UNCHANGED <<limit, standaloneVars>> /\ last' = UiOp /\ UNCHANGED used
  /\ UNCHANGED <<store, SessionID, MyName, MySide, RoomCode, Game, Err,
                 PopupActive, IsPublicCreate, PublicRooms, polls, cmds>>

\* ----------------------------------------------------- session: join
\* db.JoinRoom called from a handler: one transaction on rooms/<code>;
\* on success the client enters the game and starts polling.
JoinCall(c, code) ==
  LET r == JoinFn(Doc(code), SessionID[c], MyName[c])
  IN /\ UNCHANGED <<limit, standaloneVars>> /\ last' = Op("join", c, code, r.err)
     /\ IF r.err = ""
        THEN /\ Len(polls[c]) < limit.polls
             /\ used.joins < limit.joins
             /\ used' = [used EXCEPT !.joins = @ + 1]
             /\ store' = [store EXCEPT ![code] = <<r.doc>>]
             /\ RoomCode' = [RoomCode EXCEPT ![c] = code]
             /\ MySide' = [MySide EXCEPT ![c] = "O"]
             /\ State' = [State EXCEPT ![c] = "Game"]
             /\ polls' = [polls EXCEPT ![c] = Append(@, code)]
             /\ UNCHANGED Err
        ELSE /\ Err' = [Err EXCEPT ![c] = r.err]
             /\ UNCHANGED <<store, RoomCode, MySide, State, polls, used>>

CodeEnter(c) ==
  /\ State[c] = "InputCode" /\ ~PopupActive[c]
  /\ \E code \in RunCodes : JoinCall(c, code)
  /\ UNCHANGED <<SessionID, MyName, Game, PopupActive, IsPublicCreate,
                 PublicRooms, cmds>>

CodeEsc(c) ==
  /\ State[c] = "InputCode" /\ ~PopupActive[c]
  /\ State' = [State EXCEPT ![c] = "Menu"]
  /\ Err' = [Err EXCEPT ![c] = ""]
  /\ UNCHANGED <<limit, standaloneVars>> /\ last' = UiOp /\ UNCHANGED used
  /\ UNCHANGED <<store, SessionID, MyName, MySide, RoomCode, Game,
                 PopupActive, IsPublicCreate, PublicRooms, polls, cmds>>

\* "enter" in the public list: any row of the (filtered) cached list; the
\* join is attempted only when the cached row shows no joiner.
ListEnter(c) ==
  /\ State[c] = "PublicList" /\ ~PopupActive[c]
  /\ \E i \in 1..Len(PublicRooms[c]) :
       /\ PublicRooms[c][i].playerO = ""
       /\ JoinCall(c, PublicRooms[c][i].code)
  /\ UNCHANGED <<SessionID, MyName, Game, PopupActive, IsPublicCreate,
                 PublicRooms, cmds>>

ListEsc(c) ==
  /\ State[c] = "PublicList" /\ ~PopupActive[c]
  /\ State' = [State EXCEPT ![c] = "Menu"]
  /\ UNCHANGED <<limit, standaloneVars>> /\ last' = UiOp /\ UNCHANGED used
  /\ UNCHANGED <<store, SessionID, MyName, MySide, RoomCode, Game, Err,
                 PopupActive, IsPublicCreate, PublicRooms, polls, cmds>>

\* ----------------------------------------------- session: room, game
\* updateGame on a roomUpdateMsg.
PollDeliver(c, r, rest) ==
  /\ Game' = [Game EXCEPT ![c] = r]
  /\ IF r.playerX = ""
     THEN /\ Err' = [Err EXCEPT ![c] = ""]
          /\ State' = [State EXCEPT ![c] = "Menu"]
          /\ RoomCode' = [RoomCode EXCEPT ![c] = ""]
          /\ polls' = [polls EXCEPT ![c] = rest]
     ELSE /\ State' = [State EXCEPT ![c] =
                         IF @ = "Lobby" /\ r.playerO # "" THEN "Game" ELSE @]
          /\ polls' = [polls EXCEPT ![c] = Append(rest, RoomCode[c])]
          /\ UNCHANGED <<Err, RoomCode>>

\* A poll timer fires: pollCmd reads the room (a failed or not-found read
\* yields the zero Room) and the message goes through Update.
PollTick(c) ==
  \E i \in 1..Len(polls[c]), fail \in BOOLEAN :
    LET code == polls[c][i]
        g == GetRoom(code)
        r == IF fail \/ g.err # "" THEN ZeroRoom ELSE g.room
        rest == RemoveAt(polls[c], i)
    IN /\ fail => used.fails < limit.fails
       /\ used' = [used EXCEPT !.fails = IF fail THEN @ + 1 ELSE @]
       /\ UNCHANGED <<limit, standaloneVars>> /\ last' = Op("poll", c, code, IF fail THEN "store unavailable" ELSE g.err)
       /\ IF ~PopupActive[c] /\ InRoom(c)
          THEN PollDeliver(c, r, rest)
          ELSE /\ polls' = [polls EXCEPT ![c] = rest]
               /\ UNCHANGED <<Game, Err, State, RoomCode>>
       /\ UNCHANGED <<store, SessionID, MyName, MySide, PopupActive,
                      IsPublicCreate, PublicRooms, cmds>>

\* "q" or "esc" in a room opens the leave popup.
KeyQuit(c) ==
  /\ InRoom(c) /\ ~PopupActive[c]
  /\ used.leaves < limit.leaves
  /\ PopupActive' = [PopupActive EXCEPT ![c] = TRUE]
  /\ UNCHANGED <<limit, standaloneVars>> /\ last' = UiOp /\ UNCHANGED used
  /\ UNCHANGED <<store, SessionID, State, MyName, MySide, RoomCode, Game, Err,
                 IsPublicCreate, PublicRooms, polls, cmds>>

\* db.LeaveRoom: the host deletes the document, the joiner updates two fields.
LeaveRoom(code, isHost) ==
  store' = [store EXCEPT ![code] =
              IF isHost THEN <<>> ELSE <<LeaveUpdate(Doc(code))>>]

PopupYes(c) ==
  /\ PopupActive[c]
  /\ used.leaves < limit.leaves
  /\ used' = [used EXCEPT !.leaves = @ + 1]
  /\ IF RoomCode[c] # ""
     THEN LeaveRoom(RoomCode[c], MySide[c] = "X")
     ELSE UNCHANGED store
  /\ PopupActive' = [PopupActive EXCEPT ![c] = FALSE]
  /\ State' = [State EXCEPT ![c] = "Menu"]
  /\ Err' = [Err EXCEPT ![c] = ""]
  /\ RoomCode' = [RoomCode EXCEPT ![c] = ""]
  /\ UNCHANGED <<limit, standaloneVars>> /\ last' = Op("leave", c, RoomCode[c], "")
  /\ UNCHANGED <<SessionID, MyName, MySide, Game, IsPublicCreate, PublicRooms,
                 polls, cmds>>

PopupNo(c) ==
  /\ PopupActive[c]
  /\ PopupActive' = [PopupActive EXCEPT ![c] = FALSE]
  /\ UNCHANGED <<limit, standaloneVars>> /\ last' = UiOp /\ UNCHANGED used
  /\ UNCHANGED <<store, SessionID, State, MyName, MySide, RoomCode, Game, Err,
                 IsPublicCreate, PublicRooms, polls, cmds>>

\* "r" while the cached room is finished: the restart runs as a command.
KeyRestart(c) ==
  /\ InRoom(c) /\ ~PopupActive[c]
  /\ Game[c].status = "finished"
  /\ Len(cmds[c]) < limit.cmds
  /\ used.restarts < limit.restarts
  /\ cmds' = [cmds EXCEPT ![c] = Append(@, RestartCmd(RoomCode[c]))]
  /\ UNCHANGED <<limit, standaloneVars>> /\ last' = UiOp
  /\ used' = [used EXCEPT !.restarts = @ + 1]
  /\ UNCHANGED <<store, SessionID, State, MyName, MySide, RoomCode, Game, Err,
                 PopupActive, IsPublicCreate, PublicRooms, polls>>

\* updateGame's test of "enter" on cell idx against the cached room g
\* without the test that the cell is empty.
CanMove_AnyCell(g, side, idx) ==
  /\ g.status # "finished"
  /\ g.status # "waiting"
  /\ g.turn = side

\* updateGame's test of "enter" on cell idx against the cached room g.
CanMove(g, side, idx) ==
  /\ g.status # "finished"
  /\ g.status # "waiting"
  /\ g.turn = side
  /\ g.board[idx+1] = " "

\* "enter" on a cell: the move runs as a command that captured the model.
KeyMove(c) ==
  /\ InRoom(c) /\ ~PopupActive[c]
  /\ Len(cmds[c]) < limit.cmds
  /\ \E idx \in CursorCells(limit.script, MySide[c], Game[c].board) :
       /\ CanMove(Game[c], MySide[c], idx)
       /\ UpdateMoveDoc(idx, Game[c]).winsX <= MaxWins
       /\ UpdateMoveDoc(idx, Game[c]).winsO <= MaxWins
       /\ cmds' = [cmds EXCEPT ![c] = Append(@, MoveCmd(RoomCode[c], idx, Game[c]))]
  /\ UNCHANGED <<limit, standaloneVars>> /\ last' = UiOp /\ UNCHANGED used
  /\ UNCHANGED <<store, SessionID, State, MyName, MySide, RoomCode, Game, Err,
                 PopupActive, IsPublicCreate, PublicRooms, polls>>

\* ------------------------------------------------- command execution
\* db.UpdateMove: ref.Set of the document computed from the captured room.
RunMove(c) ==
  \E i \in 1..Len(cmds[c]) :
    LET k == cmds[c][i] IN
    /\ k.kind = "move"
    /\ store' = [store EXCEPT ![k.code] = <<Marshal(UpdateMoveDoc(k.idx, k.game))>>]
    /\ cmds' = [cmds EXCEPT ![c] = RemoveAt(@, i)]
    /\ UNCHANGED <<limit, standaloneVars>> /\ last' = Op("move", c, k.code, "")
    /\ UNCHANGED used
    /\ UNCHANGED <<SessionID, State, MyName, MySide, RoomCode, Game, Err,
                   PopupActive, IsPublicCreate, PublicRooms, polls>>

\* db.RestartGame: one transaction on rooms/<code>.
RunRestart(c) ==
  \E i \in 1..Len(cmds[c]) :
    LET k == cmds[c][i]
        r == RestartFn(Doc(k.code))
    IN
    /\ k.kind = "restart"
    /\ store' = [store EXCEPT ![k.code] = IF r.err = "" THEN <<r.doc>> ELSE @]
    /\ cmds' = [cmds EXCEPT ![c] = RemoveAt(@, i)]
    /\ UNCHANGED <<limit, standaloneVars>> /\ last' = Op("restart", c, k.code, r.err)
    /\ UNCHANGED used
    /\ UNCHANGED <<SessionID, State, MyName, MySide, RoomCode, Game, Err,
                   PopupActive, IsPublicCreate, PublicRooms, polls>>

\* fetchPublicRoomsCmd: the list is read and the message goes through Update.
RunFetch(c) ==
  \E i \in 1..Len(cmds[c]), fail \in BOOLEAN :
    /\ cmds[c][i].kind = "fetch"
    /\ cmds' = [cmds EXCEPT ![c] = RemoveAt(@, i)]
    /\ fail => used.fails < limit.fails
    /\ used' = [used EXCEPT !.fails = IF fail THEN @ + 1 ELSE @]
    /\ UNCHANGED <<limit, standaloneVars>> /\ last' = Op("fetch", c, "", IF fail THEN "store unavailable" ELSE "")
    /\ IF ~fail /\ ~PopupActive[c] /\ State[c] = "PublicList"
       THEN /\ PublicRooms' = [PublicRooms EXCEPT ![c] = ListRows(GetPublicRooms)]
            /\ Err' = [Err EXCEPT ![c] = ""]
       ELSE UNCHANGED <<PublicRooms, Err>>
    /\ UNCHANGED <<store, SessionID, State, MyName, MySide, RoomCode, Game,
                   PopupActive, IsPublicCreate, polls>>

Next ==
  \E c \in Clients :
    \/ updateName(c)
    \/ MenuCreate(c)
    \/ MenuJoin(c)
    \/ MenuList(c)
    \/ CreateToggle(c)
    \/ CreateEnter(c)
    \/ CreateEsc(c)
    \/ CodeEnter(c)
    \/ CodeEsc(c)
    \/ ListEnter(c)
    \/ ListEsc(c)
    \/ PollTick(c)
    \/ KeyQuit(c)
    \/ PopupYes(c)
    \/ PopupNo(c)
    \/ KeyRestart(c)
    \/ KeyMove(c)
    \/ RunMove(c)
    \/ RunRestart(c)
    \/ RunFetch(c)

Spec == Init /\ [][Next]_vars

\* ------------------------------------------ the standalone program
\* The standalone server (package main) keeps RoomData documents: eight of
\* the room's fields.  The other five are never written and read as their
\* zero value, which is how an absent field is represented here.
\* checkDraw that reports no board as full; then checkDraw itself.
checkDraw_Never(b) == FALSE

checkDraw(b) == \A i \in 1..BoardSize : b[i] # " "

\* An SSH session's id is its remote address: distinct per session.
sessionID == [s \in Sessions |-> AllIds[s]]

\* json.Unmarshal into RoomData: the eight fields, the board as [9]string.
RoomData(raw) ==
  [Strict(raw) EXCEPT !.code = "", !.isPublic = FALSE, !.winningLine = <<>>,
                      !.winsX = 0, !.winsO = 0]

\* The document createRoomCmd sets.
createRoomData(pid, name) ==
  [ZeroRoom EXCEPT !.board = EmptyBoard, !.turn = "X", !.playerX = pid,
                   !.playerXName = name, !.status = "waiting"]

\* The fields joinRoomCmd updates (ref.Update merges them into the node).
joinUpdates(raw, pid, name) ==
  [raw EXCEPT !.playerO = pid, !.playerOName = name, !.status = "playing"]

\* The fields makeMoveCmd updates, computed from the captured RoomData.
makeMoveUpdates(raw, current, index, player) ==
  LET board == [current.board EXCEPT ![index+1] = player]
      winner == checkWinner(board)
  IN [raw EXCEPT
        !.board = [i \in 1..BoardSize |-> JS(board[i])],
        !.turn = IF player = "O" THEN "X" ELSE "O",
        !.winner = winner,
        !.status = IF winner # "" \/ checkDraw(board) THEN "finished" ELSE "playing"]

\* The transaction function of triggerRematchCmd; coin is rand.Intn(2).
rematchFn(raw, rule, prevWinner, coin) ==
  LET newTurn == IF rule = "random" THEN (IF coin = 0 THEN "O" ELSE "X")
                 ELSE IF prevWinner = "O" THEN "O" ELSE "X"
  IN IF ~StrictOk(raw) THEN [err |-> "unmarshal", doc |-> raw]
     ELSE [err |-> "",
           doc |-> Marshal([RoomData(raw) EXCEPT
                     !.board = EmptyBoard, !.turn = newTurn, !.winner = "",
                     !.status = "playing"])]

Cmd(kind, code, idx, r, rule) ==
  [kind |-> kind, code |-> code, idx |-> idx, game |-> r, rule |-> rule]

updateNameInput(s) ==
  /\ state[s] = "NameInput"
  /\ myName' = [myName EXCEPT ![s] = AllNames[s]]
  /\ state' = [state EXCEPT ![s] = "Menu"]
  /\ last' = UiOp /\ UNCHANGED <<used, limit>>
  /\ UNCHANGED <<store, uiVars, mySide, roomCode, game, err, rematchMenu,
                 pending, timers>>

\* "n" in the menu: generateRoomCode draws any code; the create runs as a
\* command.
MenuN(s) ==
  /\ state[s] = "Menu"
  /\ Len(pending[s]) < limit.cmds
  /\ used.creates < limit.creates
  /\ used' = [used EXCEPT !.creates = @ + 1]
  /\ \E code \in RunCodes :
       /\ roomCode' = [roomCode EXCEPT ![s] = code]
       /\ pending' = [pending EXCEPT ![s] =
                        Append(@, Cmd("create", code, 0, ZeroRoom, ""))]
  /\ mySide' = [mySide EXCEPT ![s] = "X"]
  /\ last' = UiOp /\ UNCHANGED limit
  /\ UNCHANGED <<store, uiVars, state, myName, game, err, rematchMenu, timers>>

MenuJ(s) ==
  /\ state[s] = "Menu"
  /\ state' = [state EXCEPT ![s] = "InputCode"]
  /\ last' = UiOp /\ UNCHANGED <<used, limit>>
  /\ UNCHANGED <<store, uiVars, myName, mySide, roomCode, game, err,
                 rematchMenu, pending, timers>>

\* "enter" in the code prompt: the join runs as a command.
InputCodeEnter(s) ==
  /\ state[s] = "InputCode"
  /\ Len(pending[s]) < limit.cmds
  /\ used.joins < limit.joins
  /\ used' = [used EXCEPT !.joins = @ + 1]
  /\ \E code \in RunCodes :
       pending' = [pending EXCEPT ![s] =
                     Append(@, Cmd("join", code, 0, ZeroRoom, ""))]
  /\ last' = UiOp /\ UNCHANGED limit
  /\ UNCHANGED <<store, uiVars, state, myName, mySide, roomCode, game, err,
                 rematchMenu, timers>>

InputCodeEsc(s) ==
  /\ state[s] = "InputCode"
  /\ state' = [state EXCEPT ![s] = "Menu"]
  /\ last' = UiOp /\ UNCHANGED <<used, limit>>
  /\ UNCHANGED <<store, uiVars, myName, mySide, roomCode, game, err,
                 rematchMenu, pending, timers>>

\* createRoomCmd runs: ref.Set, then roomCreatedMsg goes through Update,
\* which only the menu handles.
createRoomCmd(s) ==
  \E i \in 1..Len(pending[s]) :
    LET k == pending[s][i] IN
    /\ k.kind = "create"
    /\ store' = [store EXCEPT ![k.code] =
                   <<Marshal(createRoomData(sessionID[s], myName[s]))>>]
    /\ pending' = [pending EXCEPT ![s] = RemoveAt(@, i)]
    /\ IF state[s] = "Menu"
       THEN /\ Len(timers[s]) < limit.polls
            /\ state' = [state EXCEPT ![s] = "Lobby"]
            /\ timers' = [timers EXCEPT ![s] = Append(@, roomCode[s])]
       ELSE UNCHANGED <<state, timers>>
    /\ last' = Op("create", s, k.code, "") /\ UNCHANGED <<used, limit>>
    /\ UNCHANGED <<uiVars, myName, mySide, roomCode, game, err, rematchMenu>>

\* joinRoomCmd, first half: ref.Get of the room and the room-full test.
\* An absent room reads as the zero RoomData without error.
joinRoomCmdGet(s) ==
  \E i \in 1..Len(pending[s]) :
    LET k == pending[s][i]
        e == IF ~StrictOk(Doc(k.code)) THEN "room invalid"
             ELSE IF RoomData(Doc(k.code)).playerO # "" THEN "room is full"
             ELSE ""
    IN
    /\ k.kind = "join"
    /\ IF e = ""
       THEN /\ pending' = [pending EXCEPT ![s][i].kind = "joinUpdate"]
            /\ UNCHANGED err
       ELSE /\ pending' = [pending EXCEPT ![s] = RemoveAt(@, i)]
            /\ err' = [err EXCEPT ![s] = e]
    /\ last' = Op("get", s, k.code, e) /\ UNCHANGED <<used, limit>>
    /\ UNCHANGED <<store, uiVars, state, myName, mySide, roomCode, game,
                   rematchMenu, timers>>

\* joinRoomCmd, second half: ref.Update of the three fields, then
\* roomJoinedMsg goes through Update, which only the code prompt handles.
joinRoomCmdUpdate(s) ==
  \E i \in 1..Len(pending[s]) :
    LET k == pending[s][i] IN
    /\ k.kind = "joinUpdate"
    /\ store' = [store EXCEPT ![k.code] =
                   <<joinUpdates(Doc(k.code), sessionID[s], myName[s])>>]
    /\ pending' = [pending EXCEPT ![s] = RemoveAt(@, i)]
    /\ IF state[s] = "InputCode"
       THEN /\ Len(timers[s]) < limit.polls
            /\ roomCode' = [roomCode EXCEPT ![s] = k.code]
            /\ mySide' = [mySide EXCEPT ![s] = "O"]
            /\ state' = [state EXCEPT ![s] = "Game"]
            /\ timers' = [timers EXCEPT ![s] = Append(@, k.code)]
       ELSE UNCHANGED <<roomCode, mySide, state, timers>>
    /\ last' = Op("join", s, k.code, "") /\ UNCHANGED <<used, limit>>
    /\ UNCHANGED <<uiVars, myName, game, err, rematchMenu>>

\* A poll timer fires: pollGameCmd reads the room; dbUpdateMsg goes through
\* updateGame, which polls again; a read error becomes errMsg, which sets
\* model.err and polls no more.
pollGameCmd(s) ==
  \E i \in 1..Len(timers[s]) :
    LET code == timers[s][i]
        ok == StrictOk(Doc(code))
        r == RoomData(Doc(code))
        rest == RemoveAt(timers[s], i)
    IN
    /\ last' = Op("poll", s, code, IF ok THEN "" ELSE "unmarshal") /\ UNCHANGED <<used, limit>>
    /\ IF ~ok
       THEN /\ err' = [err EXCEPT ![s] = "unmarshal"]
            /\ timers' = [timers EXCEPT ![s] = rest]
            /\ UNCHANGED <<game, state>>
       ELSE IF state[s] \in {"Lobby", "Game"}
       THEN /\ game' = [game EXCEPT ![s] = r]
            /\ state' = [state EXCEPT ![s] =
                           IF @ = "Lobby" /\ r.status = "playing" THEN "Game" ELSE @]
            /\ err' = [err EXCEPT ![s] =
                         IF game[s].winner # "" /\ r.winner = "" /\ r.status = "playing"
                         THEN "" ELSE @]
            /\ timers' = [timers EXCEPT ![s] = Append(rest, roomCode[s])]
       ELSE /\ timers' = [timers EXCEPT ![s] = rest]
            /\ UNCHANGED <<game, state, err>>
    /\ UNCHANGED <<store, uiVars, myName, mySide, roomCode, rematchMenu, pending>>

\* "left"/"right" in the host's rematch menu picks the rule.
RematchMenuKey(s) ==
  /\ state[s] \in {"Lobby", "Game"}
  /\ game[s].status = "finished" /\ mySide[s] = "X"
  /\ \E m \in {0, 1} :
       /\ m # rematchMenu[s]
       /\ rematchMenu' = [rematchMenu EXCEPT ![s] = m]
  /\ last' = UiOp /\ UNCHANGED <<used, limit>>
  /\ UNCHANGED <<store, uiVars, state, myName, mySide, roomCode, game, err,
                 pending, timers>>

\* "enter" in the host's rematch menu: the rematch runs as a command that
\* captured the rule and the cached winner.
RematchEnter(s) ==
  /\ state[s] \in {"Lobby", "Game"}
  /\ game[s].status = "finished" /\ mySide[s] = "X"
  /\ Len(pending[s]) < limit.cmds
  /\ used.restarts < limit.restarts
  /\ used' = [used EXCEPT !.restarts = @ + 1]
  /\ pending' = [pending EXCEPT ![s] =
       Append(@, Cmd("rematch", roomCode[s], 0,
                     [ZeroRoom EXCEPT !.winner = game[s].winner],
                     IF rematchMenu[s] = 1 THEN "random" ELSE "winner"))]
  /\ last' = UiOp /\ UNCHANGED limit
  /\ UNCHANGED <<store, uiVars, state, myName, mySide, roomCode, game, err,
                 rematchMenu, timers>>

\* "enter" on a cell while the cached room is playing: the move runs as a
\* command that captured the cached room.
GameEnter(s) ==
  /\ state[s] \in {"Lobby", "Game"}
  /\ game[s].status = "playing"
  /\ Len(pending[s]) < limit.cmds
  /\ \E idx \in CursorCells(limit.script, mySide[s], game[s].board) :
       /\ game[s].turn = mySide[s]
       /\ game[s].board[idx+1] = " "
       /\ pending' = [pending EXCEPT ![s] =
                        Append(@, Cmd("move", roomCode[s], idx, game[s], ""))]
  /\ last' = UiOp /\ UNCHANGED <<used, limit>>
  /\ UNCHANGED <<store, uiVars, state, myName, mySide, roomCode, game, err,
                 rematchMenu, timers>>

\* makeMoveCmd runs: ref.Update of board, turn, winner and status.
makeMoveCmd(s) ==
  \E i \in 1..Len(pending[s]) :
    LET k == pending[s][i] IN
    /\ k.kind = "move"
    /\ store' = [store EXCEPT ![k.code] =
                   <<makeMoveUpdates(Doc(k.code), k.game, k.idx, mySide[s])>>]
    /\ pending' = [pending EXCEPT ![s] = RemoveAt(@, i)]
    /\ last' = Op("move", s, k.code, "") /\ UNCHANGED <<used, limit>>
    /\ UNCHANGED <<uiVars, state, myName, mySide, roomCode, game, err,
                   rematchMenu, timers>>

\* triggerRematchCmd runs: one transaction on rooms/<code>.
triggerRematchCmd(s) ==
  \E i \in 1..Len(pending[s]), coin \in {0, 1} :
    LET k == pending[s][i]
        r == rematchFn(Doc(k.code), k.rule, k.game.winner, coin)
    IN
    /\ k.kind = "rematch"
    /\ store' = [store EXCEPT ![k.code] = IF r.err = "" THEN <<r.doc>> ELSE @]
    /\ err' = [err EXCEPT ![s] = IF r.err = "" THEN @ ELSE r.err]
    /\ pending' = [pending EXCEPT ![s] = RemoveAt(@, i)]
    /\ last' = Op("restart", s, k.code, r.err) /\ UNCHANGED <<used, limit>>
    /\ UNCHANGED <<uiVars, state, myName, mySide, roomCode, game, rematchMenu,
                   timers>>

StandaloneNext ==
  \E s \in Sessions :
    \/ updateNameInput(s)
    \/ MenuN(s)
    \/ MenuJ(s)
    \/ InputCodeEnter(s)
    \/ InputCodeEsc(s)
    \/ createRoomCmd(s)
    \/ joinRoomCmdGet(s)
    \/ joinRoomCmdUpdate(s)
    \/ pollGameCmd(s)
    \/ RematchMenuKey(s)
    \/ RematchEnter(s)
    \/ GameEnter(s)
    \/ makeMoveCmd(s)
    \/ triggerRematchCmd(s)

\* The runs explored: two joins of one created room without play, and one
\* join followed by the game that O wins and a rematch.
JoinRace == Budget(1, MaxJoins, 0, 0, 0, "", FALSE, FALSE)
Play == Budget(1, 1, 0, 1, 0, "owins", FALSE, FALSE)

\* The standalone program: an empty store, every session at the name prompt.
StandaloneInit ==
  /\ store = [k \in Codes |-> <<>>]
  /\ last = NoOp
  /\ limit \in {JoinRace, Play}
  /\ InitialModel
  /\ initialModel

StandaloneSpec == StandaloneInit /\ [][StandaloneNext]_vars

\* ------------------------------------------------------------ claims
\* The document a store value holds under a code (the zero raw value
\* when there is none), and its board as the adapter reads it.
DocOf(st, code) == IF st[code] = <<>> THEN ZeroRaw ELSE st[code][1]
BoardOf(d) == sanitizeRoom("", d).board

\* The step is a JoinRoom call by c on code; the step is a RestartGame
\* call on code.
JoinStep(c, code) == last'.op = "join" /\ last'.c = c /\ last'.code = code
RestartStep(code) == last'.op = "restart" /\ last'.code = code

\* C1, layered program: a join on a fresh room (waiting, no joiner)
\* succeeds and stores status playing with the caller as joiner; a join by
\* a different id on a room that has a joiner - in particular the second
\* of two racing joins - fails with "room is full" and leaves the document
\* unchanged.
C1_JoinRace ==
  [][\A c \in Clients, code \in Codes :
       JoinStep(c, code) =>
         LET d == Doc(code) IN
         /\ (d.playerX # "" /\ d.status = "waiting" /\ d.playerO = "")
              => /\ last'.err = ""
                 /\ DocOf(store', code).status = "playing"
                 /\ DocOf(store', code).playerO = SessionID[c]
         /\ (d.playerX # "" /\ d.playerO # "" /\ d.playerO # SessionID[c])
              => /\ last'.err = "room is full"
                 /\ store' = store
         /\ (last.op = "join" /\ last.err = "" /\ last.code = code
               /\ SessionID[last.c] # SessionID[c])
              => /\ last'.err = "room is full"
                 /\ store' = store]_vars

\* C1 witness: the second of two joins on a fresh room has just failed
\* with "room is full"; the room is playing with the other id as joiner.
C1_Witness ==
  /\ last.op = "join" /\ last.err = "room is full"
  /\ Exists(last.code)
  /\ Doc(last.code).status = "playing"
  /\ Doc(last.code).playerO # ""
  /\ Doc(last.code).playerO # SessionID[last.c]
  /\ BoardOf(Doc(last.code)) = EmptyBoard
  /\ Err[last.c] = "room is full"
  /\ State[last.c] # "Game"

\* Marks on the stored board of a document.
Count(d, mark) == Cardinality({i \in 1..BoardSize : BoardOf(d)[i] = mark})

\* C2: a stored room has status waiting exactly when it has no joiner.
C2_WaitingIffNoJoiner ==
  \A code \in Codes :
    Exists(code) => (Doc(code).status = "waiting" <=> Doc(code).playerO = "")

\* C3: a stored room with status playing has no winner, has an empty
\* cell, and its turn matches the parity of the marks on the board.
C3_PlayingShape ==
  \A code \in Codes :
    (Exists(code) /\ Doc(code).status = "playing") =>
      /\ Doc(code).winner = ""
      /\ Count(Doc(code), " ") >= 1
      /\ Doc(code).turn = "X" <=> Count(Doc(code), "X") = Count(Doc(code), "O")
      /\ Doc(code).turn = "O" <=> Count(Doc(code), "X") = Count(Doc(code), "O") + 1

\* C4: a stored room with status finished either has a winner X or O and
\* a winning line of exactly three indices whose cells all hold the
\* winner's mark, or has no winner and a full board.
C4_FinishedShape ==
  \A code \in Codes :
    (Exists(code) /\ Doc(code).status = "finished") =>
      LET d == Doc(code) IN
      \/ /\ d.winner \in {"X", "O"}
         /\ Len(d.winningLine) = 3
         /\ \A k \in 1..3 : /\ d.winningLine[k] \in 0..(BoardSize-1)
                            /\ BoardOf(d)[d.winningLine[k]+1] = d.winner
      \/ /\ d.winner = ""
         /\ Count(d, " ") = 0

\* C4 witnesses: a stored finished room won by a player, and a stored
\* finished room that is a draw.
C4_Witness ==
  \E code \in Codes :
    /\ Exists(code) /\ Doc(code).status = "finished"
    /\ Doc(code).winner = "O" /\ Doc(code).winningLine = <<3, 4, 5>>
    /\ last.op = "move"

C4_WitnessDraw ==
  \E code \in Codes :
    /\ Exists(code) /\ Doc(code).status = "finished"
    /\ Doc(code).winner = "" /\ Count(Doc(code), " ") = 0
    /\ last.op = "move"

\* C5: a restart applied to a room whose stored status is not finished
\* leaves the document unchanged.
C5_RestartOnlyFinished ==
  [][\A code \in Codes :
       (RestartStep(code) /\ Doc(code).status # "finished") => store' = store]_vars

\* C6: a restart of a finished game sets the turn to the previous winner,
\* and to X after a draw.
C6_WinnerStarts ==
  [][\A code \in Codes :
       (RestartStep(code) /\ Doc(code).status = "finished") =>
         DocOf(store', code).turn =
           (IF Doc(code).winner = "O" THEN "O" ELSE "X")]_vars

\* C7: a restart sets the board to nine empty cells, winner to none, the
\* winning line to empty and status to playing, and leaves the scores,
\* the player ids, the names, the visibility and the code as the
\* transaction read them.
C7_RestartFrame ==
  [][\A code \in Codes :
       (RestartStep(code) /\ last'.err = "") =>
         LET d == Doc(code)
             e == DocOf(store', code)
         IN /\ BoardOf(e) = EmptyBoard
            /\ Len(e.board) = BoardSize
            /\ e.winner = "" /\ e.winningLine = <<>> /\ e.status = "playing"
            /\ e.winsX = d.winsX /\ e.winsO = d.winsO
            /\ e.playerX = d.playerX /\ e.playerO = d.playerO
            /\ e.playerXName = d.playerXName /\ e.playerOName = d.playerOName
            /\ e.isPublic = d.isPublic /\ e.code = d.code]_vars

\* C7 witness: a restart has just reset a room in which X had won a game:
\* the score is kept, the board is empty.
C7_Witness ==
  /\ last.op = "restart" /\ last.err = ""
  /\ Exists(last.code)
  /\ Doc(last.code).winsX = 1
  /\ Doc(last.code).playerO # "" /\ Doc(last.code).playerX # ""
  /\ Doc(last.code).status = "playing"
  /\ BoardOf(Doc(last.code)) = EmptyBoard

\* C8: a create on a code that already holds a room reports an error,
\* leaves the stored document unchanged and does not put the caller in
\* the lobby.
C8_CreateCollision ==
  [][\A c \in Clients, code \in Codes :
       (last'.op = "create" /\ last'.c = c /\ last'.code = code /\ Exists(code)) =>
         /\ last'.err # ""
         /\ store' = store
         /\ State'[c] # "Lobby"]_vars

\* C9: right after a create, get of the same code returns a room with
\* status waiting, no joiner, the chosen visibility, the host id as
\* player X, turn X and nine empty cells.
C9_CreateGet ==
  (last.op = "create" /\ last.err = "") =>
    LET g == GetRoom(last.code) IN
    /\ g.err = ""
    /\ g.room.status = "waiting"
    /\ g.room.playerO = ""
    /\ g.room.isPublic = IsPublicCreate[last.c]
    /\ g.room.playerX = SessionID[last.c]
    /\ g.room.playerX # ""
    /\ g.room.playerXName = MyName[last.c]
    /\ g.room.code = last.code
    /\ g.room.turn = "X"
    /\ g.room.board = EmptyBoard

\* C9 witness: a public room has just been created.
C9_Witness ==
  /\ last.op = "create" /\ last.err = ""
  /\ IsPublicCreate[last.c]
  /\ Doc(last.code).isPublic
  /\ Doc(last.code).status = "waiting"

\* C10: a join succeeds only on a room stored as waiting with no joiner;
\* a join on a room stored as playing or finished fails and leaves the
\* document unchanged.
C10_JoinOnlyWaiting ==
  [][\A c \in Clients, code \in Codes :
       JoinStep(c, code) =>
         /\ last'.err = "" => (Doc(code).status = "waiting" /\ Doc(code).playerO = "")
         /\ Doc(code).status \in {"playing", "finished"} =>
              (last'.err # "" /\ store' = store)]_vars

\* C1, standalone program: a join that writes to a room which already
\* has a different joiner must not change the document.
C1_SecondJoinFails ==
  [][\A s \in Sessions, code \in Codes :
       (last'.op = "join" /\ last'.c = s /\ last'.code = code
          /\ Doc(code).playerX # "" /\ Doc(code).playerO # ""
          /\ Doc(code).playerO # sessionID[s])
       => store' = store]_vars

\* The step is a confirmed leave by c of the room code.
LeaveStep(c, code) == last'.op = "leave" /\ last'.c = c /\ last'.code = code

\* C11: a join and the host's leave of one room are serialised by the
\* store.  A join that commits found the document (it ran before the
\* delete); the host's leave removes the document whatever the join wrote;
\* a join that runs after the delete fails with "room not found", writes
\* nothing - so no document exists at the key - and leaves the joiner out
\* of the room states with the error recorded.
C11_JoinVsDelete ==
  [][\A c \in Clients, code \in Codes :
       /\ (JoinStep(c, code) /\ last'.err = "") => Exists(code)
       /\ (LeaveStep(c, code) /\ MySide[c] = "X") => store'[code] = <<>>
       /\ (JoinStep(c, code) /\ ~Exists(code)) =>
            /\ last'.err = "room not found"
            /\ store' = store
            /\ State'[c] = State[c] /\ State'[c] \notin {"Lobby", "Game"}
            /\ RoomCode'[c] = RoomCode[c]
            /\ Err'[c] = "room not found"]_vars

\* C11 witness: after the host's leave deleted the room, a join of that
\* code has failed with "room not found" and no document exists.
C11_Witness ==
  /\ last.op = "join" /\ last.err = "room not found"
  /\ used.leaves = 1 /\ used.creates = 1
  /\ store[last.code] = <<>>
  /\ State[last.c] = "InputCode" /\ Err[last.c] = "room not found"
  /\ MySide[last.c] = ""

\* C11 witness: a join committed and the host's leave then deleted the
\* room the joiner is in.
C11_WitnessCommitted ==
  /\ last.op = "leave" /\ store[last.code] = <<>>
  /\ \E c \in Clients : c # last.c /\ State[c] = "Game" /\ RoomCode[c] = last.code

\* The commands of a session that write a room.
Mutations(q) == {i \in 1..Len(q) : q[i].kind \in {"move", "restart"}}

\* C12: a client never has two mutations (move or restart) of one room
\* outstanding at the same time.
C12_OneOutstanding ==
  \A c \in Clients : \A i, j \in Mutations(cmds[c]) :
    cmds[c][i].code = cmds[c][j].code => i = j

\* C13: the code field of a stored room equals the key the document is
\* stored under.
C13_CodeIsKey ==
  \A code \in Codes : Exists(code) => Doc(code).code = code

\* C13, the writes of a move: the document a move writes to a key carries
\* that key as its code, that is, it was computed from a copy of that room.
C13_MoveFromOwnRoom ==
  [][\A code \in Codes :
       (last'.op = "move" /\ last'.code = code) =>
         DocOf(store', code).code = code]_vars

\* The step delivers to c the result of a poll of code.
PollStep(c, code) == last'.op = "poll" /\ last'.c = c /\ last'.code = code

\* C14: while a client is in a room (lobby or game, the leave popup open
\* or not), a poll result that fetched a document with a creator id is
\* followed by the scheduling of another poll: the client has as many poll
\* timers after the step as before it.
C14_PollReschedules ==
  [][\A c \in Clients, code \in Codes :
       (PollStep(c, code) /\ last'.err = "" /\ InRoom(c)) =>
         /\ Len(polls'[c]) >= Len(polls[c])
         /\ Game'[c] = GetRoom(code).room]_vars

\* C14, as a state property: a client in a room has a poll scheduled.
C14_ChainAlive ==
  \A c \in Clients : InRoom(c) => Len(polls[c]) > 0

\* C15: when the poll's read fails with a store error while the room
\* exists, the client (in a room, no popup open) keeps its state and room
\* code and another poll is scheduled.
C15_FailedPollKeepsRoom ==
  [][\A c \in Clients, code \in Codes :
       (/\ PollStep(c, code) /\ last'.err = "store unavailable"
        /\ InRoom(c) /\ ~PopupActive[c]
        /\ GetRoom(code).err = "") =>
         /\ State'[c] = State[c]
         /\ RoomCode'[c] = RoomCode[c]
         /\ Len(polls'[c]) >= Len(polls[c])]_vars

\* C16: the result of a poll of a room the client has left (the poll's
\* code is not the client's room code) is discarded: it changes neither
\* the client's state nor its cached room nor its room code, and the poll
\* is not scheduled again.
C16_StalePollDiscarded ==
  [][\A c \in Clients, code \in Codes :
       (PollStep(c, code) /\ RoomCode[c] # code) =>
         /\ State'[c] = State[c]
         /\ Game'[c] = Game[c]
         /\ RoomCode'[c] = RoomCode[c]
         /\ Len(polls'[c]) < Len(polls[c])]_vars

\* C17: a move of the joiner written to a key that holds no document (the
\* host's leave deleted the room) stores nothing a poll reads as a live
\* room: the next GetRoom of that key reports that the room does not exist.
C17_StaleMoveNotLive ==
  [][\A c \in Clients, code \in Codes :
       (/\ last'.op = "move" /\ last'.c = c /\ last'.code = code
        /\ MySide[c] = "O" /\ ~Exists(code)) =>
         DocOf(store', code).playerX = ""]_vars

\* C18, layered program: a client in lobby or game with no popup open that
\* receives a poll result with an empty creator id (room absent, deleted or
\* unreadable) goes to the menu, clears its room code and schedules no
\* further poll.
C18_AbsentRoomToMenu ==
  [][\A c \in Clients, code \in Codes :
       (PollStep(c, code) /\ last'.err # "" /\ InRoom(c) /\ ~PopupActive[c]) =>
         /\ State'[c] = "Menu"
         /\ RoomCode'[c] = ""
         /\ Len(polls'[c]) < Len(polls[c])]_vars

\* C18 witness, layered program: the joiner's poll found its room deleted
\* and the joiner is back in the menu without a poll timer.
C18_Witness ==
  /\ last.op = "poll" /\ last.err = "room does not exist"
  /\ State[last.c] = "Menu" /\ RoomCode[last.c] = ""
  /\ polls[last.c] = <<>>
  /\ MySide[last.c] = "O"

\* C18, standalone program: a session in lobby or game that receives a
\* poll result with an empty creator id goes to the menu, clears its room
\* code and schedules no further poll.
C18_AbsentRoomToMenuStandalone ==
  [][\A s \in Sessions, code \in Codes :
       (/\ last'.op = "poll" /\ last'.c = s /\ last'.code = code
        /\ state[s] \in {"Lobby", "Game"}
        /\ StrictOk(Doc(code)) /\ RoomData(Doc(code)).playerX = "") =>
         /\ state'[s] = "Menu"
         /\ roomCode'[s] = ""
         /\ Len(timers'[s]) < Len(timers[s])]_vars

\* C19: a confirmed leave by the host removes the room document; a
\* confirmed leave by the joiner sets playerO to "" and status to waiting
\* and leaves every other field of the document as the store holds it at
\* that moment.  No other key is touched.
C19_LeaveFrame ==
  [][\A c \in Clients, code \in Codes :
       LeaveStep(c, code) =>
         /\ \A k \in Codes \ {code} : store'[k] = store[k]
         /\ IF MySide[c] = "X"
            THEN store'[code] = <<>>
            ELSE /\ store'[code] # <<>>
                 /\ DocOf(store', code).playerO = ""
                 /\ DocOf(store', code).status = "waiting"
                 /\ \A f \in DOMAIN Doc(code) \ {"playerO", "status"} :
                      DocOf(store', code)[f] = Doc(code)[f]]_vars

\* C19 witness: the joiner has just left a room in which a move had been
\* played, and the host's document still carries the board.
C19_Witness ==
  /\ last.op = "leave" /\ MySide[last.c] = "O"
  /\ Exists(last.code)
  /\ Doc(last.code).playerX # "" /\ Doc(last.code).playerO = ""
  /\ Doc(last.code).status = "waiting"
  /\ Count(Doc(last.code), "X") >= 1

\* C20: a client issues a move only if its cached room, at the moment of
\* the key press, has status playing, the client's side as turn and the
\* target cell empty; the command carries that cached room and the
\* client's room code.  In every other case the key press issues nothing.
C20_MoveGuard ==
  [][\A c \in Clients :
       (/\ Len(cmds'[c]) > Len(cmds[c])
        /\ cmds'[c][Len(cmds'[c])].kind = "move") =>
         LET k == cmds'[c][Len(cmds'[c])] IN
         /\ k.game = Game[c] /\ k.code = RoomCode[c]
         /\ Game[c].status = "playing"
         /\ Game[c].turn = MySide[c]
         /\ Game[c].board[k.idx+1] = " "]_vars

\* C20 witness: a move has been issued from a cached playing room in which
\* the client already has a mark, so that the cursor could also have been
\* on an occupied cell.
C20_Witness ==
  \E c \in Clients :
    /\ last = UiOp
    /\ Len(cmds[c]) > 0
    /\ LET k == cmds[c][Len(cmds[c])] IN
       /\ k.kind = "move" /\ k.game = Game[c]
       /\ k.game.status = "playing" /\ k.game.turn = MySide[c]
       /\ \E i \in 1..BoardSize : k.game.board[i] = MySide[c]
       /\ k.game.board[k.idx+1] = " "

\* ------------------------------------------- the adapter's read path
\* The store enforces no schema: a stored board is any JSON array.  The
\* documents read here have a board of BoardLens entries, all "X" except
\* one entry that is any of RawCells, with or without a creator id,
\* public or not.
RawCells == {JS(" "), JS("X"), JS("O"), JS(""), JS("Q"), JN(0), JN(7), JOther}
BoardLens == {0, 5, BoardSize, BoardSize + 1}
RawBoards ==
  UNION {{[i \in 1..n |-> IF i = q THEN v ELSE JS("X")] : q \in 1..n, v \in RawCells}
         : n \in BoardLens}
    \cup {<<>>}
RawDocs ==
  {[ZeroRaw EXCEPT !.playerX = x, !.isPublic = pub, !.board = b,
                   !.turn = "X", !.status = "playing"] :
     x \in {"", AllIds[1]}, pub \in BOOLEAN, b \in RawBoards}
PlainDocs ==
  {Marshal(CreateRoomDoc(AllCodes[2], AllIds[2], AllNames[2], pub)) : pub \in BOOLEAN}

\* The first code holds nothing or any of RawDocs, every other code holds
\* nothing or a room as CreateRoom stores it.
ReadInit ==
  /\ store \in {st \in [Codes -> {<<>>} \cup {<<d>> : d \in RawDocs \cup PlainDocs}] :
                  \A k \in Codes \ {AllCodes[1]} :
                    st[k] = <<>> \/ st[k][1] \in PlainDocs}
  /\ last = NoOp
  /\ limit = Listing
  /\ InitialModel
  /\ initialModel

\* A client calls db.GetRoom: the room, or the error, is what it keeps.
GetRoomCall(c) ==
  \E code \in Codes :
    LET g == GetRoom(code) IN
    /\ Game' = [Game EXCEPT ![c] = g.room]
    /\ Err' = [Err EXCEPT ![c] = g.err]
    /\ last' = Op("get", c, code, g.err)
    /\ UNCHANGED <<store, used, limit, standaloneVars, SessionID, State, MyName,
                   MySide, RoomCode, PopupActive, IsPublicCreate, PublicRooms,
                   polls, cmds>>

\* A client calls db.GetPublicRooms and keeps the rows.
GetPublicRoomsCall(c) ==
  /\ PublicRooms' = [PublicRooms EXCEPT ![c] = ListRows(GetPublicRooms)]
  /\ last' = Op("fetch", c, "", "")
  /\ UNCHANGED <<store, used, limit, standaloneVars, SessionID, State, MyName,
                 MySide, RoomCode, Game, Err, PopupActive, IsPublicCreate,
                 polls, cmds>>

ReadNext ==
  \E c \in Clients :
    \/ GetRoomCall(c)
    \/ GetPublicRoomsCall(c)

ReadSpec == ReadInit /\ [][ReadNext]_vars

\* The cell values of a room: empty, X, O.
CellValues == {" ", "X", "O"}

\* C21: a successful read yields a board of nine cells, each one of empty,
\* X, O: a raw entry that is one of these strings is kept, every other
\* entry (a number, another string, a non-string, a missing entry) reads as
\* the empty cell, and entries beyond the ninth are dropped.
C21_SanitizedBoard ==
  [][\A c \in Clients, code \in Codes :
       (last'.op = "get" /\ last'.c = c /\ last'.code = code /\ last'.err = "") =>
         LET raw == Doc(code).board
             b == Game'[c].board
         IN /\ DOMAIN b = 1..BoardSize
            /\ \A i \in 1..BoardSize :
                 /\ b[i] \in CellValues
                 /\ b[i] = IF /\ i <= Len(raw)
                              /\ raw[i].t = "string"
                              /\ raw[i].s \in CellValues
                           THEN raw[i].s ELSE " "]_vars

C23_PublicSorted ==
  LET L == GetPublicRooms IN
  /\ {L[i].code : i \in 1..Len(L)} = {k \in Codes : Exists(k) /\ Doc(k).isPublic}
  /\ \A i \in 1..Len(L) : L[i] = sanitizeRoom(L[i].code, Doc(L[i].code))
  /\ \A i, j \in 1..Len(L) : i < j => CodeIdx(L[i].code) < CodeIdx(L[j].code)

\* C23 witness: a client has fetched the list while two public rooms and
\* no private one are stored, and holds both rows in order.
C23_Witness ==
  /\ last.op = "fetch"
  /\ \A k \in Codes : Exists(k) /\ Doc(k).isPublic
  /\ Len(PublicRooms[last.c]) = NumCodes
  /\ PublicRooms[last.c][1].code = AllCodes[1]

\* C23 witness: a private room is stored beside a public one and the
\* fetched list holds the public one only.
C23_WitnessPrivate ==
  /\ last.op = "fetch"
  /\ \E k \in Codes : Exists(k) /\ ~Doc(k).isPublic
  /\ Len(PublicRooms[last.c]) = 1

\* ------------------------------------------------- the rules of a move
\* Every board of nine cells, each empty, X or O.
AllBoards == [1..BoardSize -> CellValues]

\* The room a client holds when it presses "enter": a playing room with
\* board b and turn mark.
CachedRoom(b, mark) ==
  [ZeroRoom EXCEPT !.code = AllCodes[1], !.board = b, !.turn = mark,
                   !.playerX = AllIds[1], !.playerO = AllIds[2],
                   !.playerXName = AllNames[1], !.playerOName = AllNames[2],
                   !.status = "playing", !.winsO = MaxWins]

\* A move command is pending for any board, any empty cell of it and
\* either mark: in client 1 of the layered program (layered) or in
\* session 1 of the standalone program, the room being stored as cached
\* (with the fields the program keeps).
RulesInit ==
  /\ last = NoOp
  /\ limit = Play
  /\ used = [creates |-> 1, joins |-> 1, leaves |-> 0, restarts |-> 0, fails |-> 0]
  /\ SessionID = DistinctKeys
  /\ MyName = [c \in Clients |-> AllNames[c]]
  /\ Err = [c \in Clients |-> ""]
  /\ PopupActive = [c \in Clients |-> FALSE]
  /\ IsPublicCreate = [c \in Clients |-> FALSE]
  /\ PublicRooms = [c \in Clients |-> <<>>]
  /\ polls = [c \in Clients |-> <<>>]
  /\ myName = [s \in Sessions |-> AllNames[s]]
  /\ err = [s \in Sessions |-> ""]
  /\ rematchMenu = [s \in Sessions |-> 0]
  /\ timers = [s \in Sessions |-> <<>>]
  /\ \E b \in AllBoards, idx \in 0..(BoardSize-1), mark \in {"X", "O"},
        layered \in BOOLEAN :
       LET r == CachedRoom(b, mark) IN
       /\ b[idx+1] = " "
       /\ store = [k \in Codes |->
                     IF k # r.code THEN <<>>
                     ELSE IF layered THEN <<Marshal(r)>>
                     ELSE <<Marshal(RoomData(Marshal(r)))>>]
       /\ State = [c \in Clients |-> IF layered /\ c = 1 THEN "Game" ELSE "Menu"]
       /\ MySide = [c \in Clients |-> IF layered /\ c = 1 THEN mark ELSE ""]
       /\ RoomCode = [c \in Clients |-> IF layered /\ c = 1 THEN r.code ELSE ""]
       /\ Game = [c \in Clients |-> IF layered /\ c = 1 THEN r ELSE InitialGame]
       /\ cmds = [c \in Clients |->
                    IF layered /\ c = 1 THEN <<MoveCmd(r.code, idx, r)>> ELSE <<>>]
       /\ state = [s \in Sessions |-> IF ~layered /\ s = 1 THEN "Game" ELSE "Menu"]
       /\ mySide = [s \in Sessions |-> IF ~layered /\ s = 1 THEN mark ELSE ""]
       /\ roomCode = [s \in Sessions |-> IF ~layered /\ s = 1 THEN r.code ELSE ""]
       /\ game = [s \in Sessions |->
                    IF ~layered /\ s = 1 THEN RoomData(Marshal(r)) ELSE InitialGame]
       /\ pending = [s \in Sessions |->
                       IF ~layered /\ s = 1
                       THEN <<Cmd("move", r.code, idx, RoomData(Marshal(r)), "")>>
                       ELSE <<>>]

\* The pending command runs: db.UpdateMove or makeMoveCmd.
RulesNext ==
  \/ \E c \in Clients : RunMove(c)
  \/ \E s \in Sessions : makeMoveCmd(s)

RulesSpec == RulesInit /\ [][RulesNext]_vars

\* The scan order of the triples: rows top to bottom, columns left to
\* right, diagonal 0-4-8, diagonal 2-4-6.
ScanOrder ==
  <<<<0,1,2>>, <<3,4,5>>, <<6,7,8>>, <<0,3,6>>, <<1,4,7>>, <<2,5,8>>,
    <<0,4,8>>, <<2,4,6>>>>

\* The three cells of triple t hold the same mark, X or O.
SameMark(b, t) ==
  /\ b[t[1]+1] \in {"X", "O"}
  /\ b[t[2]+1] = b[t[1]+1]
  /\ b[t[3]+1] = b[t[1]+1]

\* A triple of b is complete; no cell of b is empty.
HasTriple(b) == \E k \in 1..Len(ScanOrder) : SameMark(b, ScanOrder[k])
Full(b) == \A i \in 1..BoardSize : b[i] # " "

\* The boards in the state: those the clients and sessions hold and those
\* stored.
BoardsHeld ==
  {Game[c].board : c \in Clients} \cup {game[s].board : s \in Sessions}
    \cup {BoardOf(Doc(k)) : k \in {x \in Codes : Exists(x)}}

\* C24: for every board of empty, X and O cells, checkWinner reports the
\* mark of the first triple in scan order whose three cells hold the same
\* mark, and no winner when there is none; it reports X, O or none.  The
\* winner a move of the standalone program stores is the one reported for
\* the board it stores.
C24_FirstTripleWins ==
  /\ \A b \in BoardsHeld \cap AllBoards :
       /\ checkWinner(b) \in {"", "X", "O"}
       /\ ~HasTriple(b) => checkWinner(b) = ""
       /\ \A k \in 1..Len(ScanOrder) :
            (SameMark(b, ScanOrder[k]) /\ \A j \in 1..(k-1) : ~SameMark(b, ScanOrder[j]))
              => checkWinner(b) = b[ScanOrder[k][1]+1]
  /\ \A s \in Sessions :
       (last.op = "move" /\ last.c = s /\ state[s] = "Game") =>
         Doc(last.code).winner = checkWinner(BoardOf(Doc(last.code)))

\* C24 witness: the standalone program has stored a move on a board whose
\* top row is X and whose bottom row is O, with winner X.
C24_Witness ==
  /\ last.op = "move" /\ state[1] = "Game"
  /\ LET b == BoardOf(Doc(last.code)) IN
     /\ SameMark(b, <<0,1,2>>) /\ b[1] = "X"
     /\ SameMark(b, <<6,7,8>>) /\ b[7] = "O"
     /\ Doc(last.code).winner = "X"

\* The step runs the i-th command of client c, a db.UpdateMove; the step
\* runs the i-th command of session s, a makeMoveCmd.
UpdateMoveStep(c, i) ==
  /\ last'.op = "move" /\ last'.c = c
  /\ i <= Len(cmds[c]) /\ cmds[c][i].kind = "move"
  /\ cmds'[c] = RemoveAt(cmds[c], i)
makeMoveStep(s, i) ==
  /\ last'.op = "move" /\ last'.c = s
  /\ i <= Len(pending[s]) /\ pending[s][i].kind = "move"
  /\ pending'[s] = RemoveAt(pending[s], i)

\* The board of room r after mark is put on cell idx.
Played(r, idx, mark) == [r.board EXCEPT ![idx+1] = mark]

\* What C25 asks of the document d a move writes, b being the board after
\* the move and old the document stored before it: a draw (finished, no
\* winner) is written exactly when b has no complete triple and no empty
\* cell, and then with no winning line and the scores of old.
DrawOutcome(d, b, old) ==
  /\ (d.status = "finished" /\ d.winner = "") <=> (~HasTriple(b) /\ Full(b))
  /\ (~HasTriple(b) /\ Full(b)) =>
       /\ d.winningLine = <<>>
       /\ d.winsX = old.winsX /\ d.winsO = old.winsO

\* C25: a move that fills the last empty cell without completing a triple
\* writes status finished, no winner, no winning line and the scores
\* unchanged, and a move writes a draw only for a board with no winner and
\* no empty cell - in db.UpdateMove and in makeMoveCmd.
C25_DrawOutcome ==
  [][/\ \A c \in Clients, i \in 1..MaxCmds :
          UpdateMoveStep(c, i) =>
            LET k == cmds[c][i] IN
            DrawOutcome(DocOf(store', k.code),
                        Played(k.game, k.idx, k.game.turn), Doc(k.code))
     /\ \A s \in Sessions, i \in 1..MaxCmds :
          makeMoveStep(s, i) =>
            LET k == pending[s][i] IN
            DrawOutcome(DocOf(store', k.code),
                        Played(k.game, k.idx, mySide[s]), Doc(k.code))]_vars

\* C25 witness: db.UpdateMove has filled the last empty cell of a board
\* without a triple and the room is stored finished without a winner.
C25_Witness ==
  /\ last.op = "move" /\ State[1] = "Game" /\ cmds[1] = <<>>
  /\ Full(BoardOf(Doc(last.code))) /\ ~HasTriple(BoardOf(Doc(last.code)))
  /\ Doc(last.code).status = "finished" /\ Doc(last.code).winner = ""
  /\ Doc(last.code).winsO = MaxWins

\* C25 witness: makeMoveCmd has filled the last empty cell of a board
\* without a triple.
C25_WitnessStandalone ==
  /\ last.op = "move" /\ state[1] = "Game" /\ pending[1] = <<>>
  /\ Full(BoardOf(Doc(last.code))) /\ ~HasTriple(BoardOf(Doc(last.code)))
  /\ Doc(last.code).status = "finished" /\ Doc(last.code).winner = ""

\* The first complete triple of b in scan order.
FirstTriple(b) ==
  ScanOrder[CHOOSE k \in 1..Len(ScanOrder) :
              /\ SameMark(b, ScanOrder[k])
              /\ \A j \in 1..(k-1) : ~SameMark(b, ScanOrder[j])]

\* What C26 asks of the document d a move of mark writes, b0 being the
\* board before the move, b the board after it and old the document
\* stored before it.
MoveOutcome(d, b0, b, mark, old) ==
  /\ (~HasTriple(b0) /\ HasTriple(b)) =>
       /\ d.status = "finished"
       /\ d.winner = mark
       /\ d.winningLine = FirstTriple(b)
       /\ d.winsX = old.winsX + (IF mark = "X" THEN 1 ELSE 0)
       /\ d.winsO = old.winsO + (IF mark = "O" THEN 1 ELSE 0)
  /\ (~HasTriple(b) /\ ~Full(b)) =>
       /\ d.status = "playing"
       /\ d.winner = ""
       /\ d.winsX = old.winsX /\ d.winsO = old.winsO
       /\ d.turn = IF mark = "X" THEN "O" ELSE "X"

\* C26, db.UpdateMove: a move that completes a triple writes finished,
\* the mover as winner, the triple as winning line and the mover's score
\* plus one; a move that neither wins nor fills the board writes playing,
\* no winner, the scores unchanged and the other mark as turn.
C26_UpdateMoveOutcome ==
  [][\A c \in Clients, i \in 1..MaxCmds :
       UpdateMoveStep(c, i) =>
         LET k == cmds[c][i] IN
         MoveOutcome(DocOf(store', k.code), k.game.board,
                     Played(k.game, k.idx, k.game.turn), k.game.turn,
                     Doc(k.code))]_vars

\* C26 witness, db.UpdateMove: X has completed the diagonal 0-4-8 and the
\* room is stored finished with that line and one win for X.
C26_Witness ==
  /\ last.op = "move" /\ State[1] = "Game" /\ cmds[1] = <<>>
  /\ Doc(last.code).status = "finished" /\ Doc(last.code).winner = "X"
  /\ Doc(last.code).winningLine = <<0,4,8>>
  /\ Doc(last.code).winsX = 1 /\ Doc(last.code).winsO = MaxWins

\* C26, makeMoveCmd: the same outcome of a move of the standalone program.
C26_makeMoveOutcome ==
  [][\A s \in Sessions, i \in 1..MaxCmds :
       makeMoveStep(s, i) =>
         LET k == pending[s][i] IN
         MoveOutcome(DocOf(store', k.code), k.game.board,
                     Played(k.game, k.idx, mySide[s]), mySide[s],
                     Doc(k.code))]_vars

\* ---------------------------------------------------------------------------
\* Finished rooms, departed joiners and committed moves under stale commands
\* ---------------------------------------------------------------------------

\* C27: once the stored status is finished, no move write changes the stored
\* room: a step that executes a move command of either client against a
\* finished document leaves the document as it is (board, winner, winning
\* line, scores and status), so that only a restart or a leave ends the
\* finished state.
C27_FinishedStaysFinished ==
  [][\A code \in Codes :
       (/\ last'.op = "move" /\ last'.code = code
        /\ Exists(code) /\ Doc(code).status = "finished") =>
         store'[code] = store[code]]_vars

\* C28: after the joiner's leave the stored room stays waiting with no
\* second player until a join succeeds: a step that executes a move or a
\* restart command of the remaining host against such a document leaves its
\* status at waiting and its playerO empty.
C28_DepartedStaysWaiting ==
  [][\A c \in Clients, code \in Codes :
       (/\ last'.op \in {"move", "restart"} /\ last'.c = c /\ last'.code = code
        /\ MySide[c] = "X" /\ used.leaves > 0
        /\ Exists(code) /\ Doc(code).playerX # ""
        /\ Doc(code).status = "waiting" /\ Doc(code).playerO = "") =>
         /\ DocOf(store', code).status = "waiting"
         /\ DocOf(store', code).playerO = ""]_vars

\* The cells of stored board b that hold a mark.
Marked(b) == {i \in 1..Len(b) : b[i] \in {JS("X"), JS("O")}}

\* C29 (layered program): between two restarts a stored cell that holds a
\* mark keeps it: a step that executes a move command leaves every marked
\* cell of the stored board as it is.
C29_MarksKept ==
  [][\A code \in Codes :
       (last'.op = "move" /\ last'.code = code /\ Exists(code)) =>
         \A i \in Marked(Doc(code).board) :
           /\ i <= Len(DocOf(store', code).board)
           /\ DocOf(store', code).board[i] = Doc(code).board[i]]_vars

\* C29 (standalone program): the same for the moves of makeMoveCmd.
C29_MarksKeptStandalone ==
  [][\A code \in Codes, s \in Sessions :
       (\E i \in 1..MaxCmds : makeMoveStep(s, i)) /\ last'.code = code
         /\ Exists(code) =>
         \A i \in Marked(Doc(code).board) :
           /\ i <= Len(DocOf(store', code).board)
           /\ DocOf(store', code).board[i] = Doc(code).board[i]]_vars

\* C30: each client has at most one outstanding poll (a scheduled tick or
\* one whose read is in flight) at any time.
C30_OnePoll == \A c \in Clients : Len(polls[c]) <= 1

\* ---------------------------------------------------------------------------
\* Scores, writes to absent rooms and the two players of a room
\* ---------------------------------------------------------------------------

\* C31: the scores of a stored room never decrease during the life of the
\* room: a step that applies a move, a restart, a join or a leave to a stored
\* room, and leaves a room stored, leaves winsX and winsO at least as large
\* as they were.
C31_ScoresMonotone ==
  [][\A code \in Codes :
       (/\ last'.op \in {"move", "restart", "join", "leave"}
        /\ last'.code = code
        /\ Exists(code) /\ store'[code] # <<>>) =>
         /\ DocOf(store', code).winsX >= Doc(code).winsX
         /\ DocOf(store', code).winsO >= Doc(code).winsO]_vars

\* C32: a restart or a joiner's leave applied to a key that holds no
\* document leaves the key without a document.
C32_AbsentStaysAbsent ==
  [][\A c \in Clients, code \in Codes :
       (/\ last'.c = c /\ last'.code = code /\ ~Exists(code)
        /\ \/ last'.op = "restart"
           \/ last'.op = "leave" /\ MySide[c] # "X") =>
         store'[code] = <<>>]_vars

\* C32, the leave alone: the joiner's leave on a key without a document
\* leaves the key without a document.
C32_LeaveAbsent ==
  [][\A c \in Clients, code \in Codes :
       (/\ LeaveStep(c, code) /\ MySide[c] # "X" /\ ~Exists(code)) =>
         store'[code] = <<>>]_vars

\* C32, the restart alone.
C32_RestartAbsent ==
  [][\A code \in Codes :
       (last'.op = "restart" /\ last'.code = code /\ ~Exists(code)) =>
         store'[code] = <<>>]_vars

\* C33: in every stored room the second player, when there is one, is not
\* the creator: playerO is empty or differs from playerX.
C33_PlayersDiffer ==
  \A code \in Codes :
    Exists(code) => Doc(code).playerO = "" \/ Doc(code).playerO # Doc(code).playerX

\* C33, the join: a join by the id that created the room fails and leaves
\* the document unchanged.
C33_CreatorJoinFails ==
  [][\A c \in Clients, code \in Codes :
       (/\ last'.op = "join" /\ last'.c = c /\ last'.code = code
        /\ Exists(code) /\ Doc(code).playerX = SessionID[c]) =>
         last'.err # "" /\ store'[code] = store[code]]_vars

====
